---- MODULE Spec2Model ----
(***************************************************************************)
(* Model of vehicle_part (src/src/vehicle_part.cpp): role predicates,      *)
(* damage/health, ammo and fuel bookkeeping, reload checks and crew        *)
(* assignment, together with the vehicle-level helpers set_hp, mod_hp and  *)
(* assign_seat.  The embedded item, the item-type catalog and the NPC      *)
(* registry are collaborators outside this file; they are modelled by the  *)
(* operators prefixed item_ / find_type_ / critter_by_id.                  *)
(***************************************************************************)
EXTENDS Integers, Sequences, FiniteSets, TLC

VARIABLES parts, npcs, last

vars == <<parts, npcs, last>>

(* ------------------------------ bounds -------------------------------- *)

\* liquid capacity of the tank item, in millilitres
TankCapacityMl == 500
\* stack_size of the fuel liquid (charges per catalog volume)
FuelStackSize == 2
\* capacity of a magazine item (battery, reactor)
MagCapacity == 2
\* clip size of a gun item
GunClip == 2
\* durability of the part-type descriptor
Durability == 2
\* durability of the sturdier part-type descriptor
LargeDurability == 28
\* significant bits of a double as the model carries it (the program's has 53)
MantissaBits == 6
\* largest quantity passed to ammo_set / ammo_consume
MaxQty == 3
\* largest energy passed to consume_energy
MaxEnergy == 3
\* largest charge count a stack is followed to
MaxCharges == 6
\* seats of the vehicle
NumSeats == 2
\* NPCs that can be assigned
NumNpcs == 2

(* ------------------------- program constants -------------------------- *)

\* units::legacy_volume_factor, in millilitres
legacy_volume_factor == 250
\* item::max_damage()
max_damage == 4
\* item::min_damage()
min_damage == -1
\* crew_id of a part without crew
NO_CREW == -1

Min(a, b) == IF a < b THEN a ELSE b
Max(a, b) == IF a > b THEN a ELSE b

RECURSIVE Pow2(_)
Pow2(n) == IF n = 0 THEN 1 ELSE 2 * Pow2(n - 1)

RECURSIVE Pow2Above(_, _)
\* the least power of two that is u or more, and n or more
Pow2Above(u, n) == IF u >= n THEN u ELSE Pow2Above(2 * u, n)

\* a double is an integer count of 1 / Unit; Unit is fine enough for every
\* double the damage arithmetic produces from durabilities up to
\* LargeDurability + 1
Unit == Pow2(MantissaBits) * Pow2Above(1, LargeDurability + 1)

\* the doubles from Mantissa \div 2 up to Mantissa are the integers
Mantissa == Pow2(MantissaBits)

RECURSIVE UlpOf(_, _, _)
\* the spacing of the doubles around num / den >= 0
UlpOf(u, num, den) ==
    IF num < Mantissa * u * den THEN u ELSE UlpOf(2 * u, num, den)

\* num / den >= 0 rounded to a multiple of the spacing u, ties to even
RoundTo(u, num, den) ==
    LET q == num \div (u * den)
        r == num % (u * den)
    IN  (IF 2 * r > u * den \/ (2 * r = u * den /\ q % 2 = 1) THEN q + 1 ELSE q) * u

\* num / den >= 0 rounded to the nearest double
RoundPos(num, den) == RoundTo(UlpOf(1, num, den), num, den)

\* the double nearest to num / den: the result of one floating-point operation
Fl(num, den) == IF num >= 0 THEN RoundPos(num, den) ELSE -RoundPos(-num, den)

\* std::ceil( a / b ) for b > 0
CeilDiv(a, b) == IF a >= 0 THEN (a + b - 1) \div b ELSE -((-a) \div b)

(* ------------------------- item-type catalog -------------------------- *)

Liquids == {"water_clean", "gasoline"}

\* itype::phase == LIQUID
find_type_is_liquid(t) == t \in Liquids

\* itype::volume in millilitres (the volume of stack_size charges)
find_type_volume(t) == IF t \in Liquids THEN legacy_volume_factor ELSE 0

\* itype::stack_size
find_type_stack_size(t) ==
    IF t = "gasoline" THEN FuelStackSize
    ELSE IF t = "water_clean" THEN 1
    ELSE 0

\* itype ammo slot: the ammo type an item type counts as
find_type_ammo_type(t) ==
    IF t = "battery" THEN "battery"
    ELSE IF t = "plut_cell" THEN "plutonium"
    ELSE IF t = "9mm" THEN "9mm"
    ELSE "NULL"

\* item::is_fuel()
item_is_fuel(t) == t \in {"gasoline", "battery", "plut_cell"}

\* item::fuel_energy(): energy per charge
item_fuel_energy(t) == IF t = "gasoline" THEN 2 ELSE 1

(* --------------------------- embedded item ---------------------------- *)

Stack(t, n) == [typeId |-> t, charges |-> n]

\* item::is_watertight_container()
item_is_watertight_container(b) == b.watertight

\* item::get_container_capacity() in millilitres
item_get_container_capacity(b) == IF b.watertight THEN TankCapacityMl ELSE 0

\* item::damage(): the integer part of the stored damage
item_damage(b) == b.damage_ \div Unit

RECURSIVE SumCharges(_)
SumCharges(s) == IF s = <<>> THEN 0 ELSE Head(s).charges + SumCharges(Tail(s))

\* item::ammo_capacity()
item_ammo_capacity(b) ==
    IF b.gun THEN GunClip
    ELSE IF b.magazine THEN MagCapacity
    ELSE 0

\* item::ammo_remaining()
item_ammo_remaining(b) ==
    IF b.gun THEN b.charges
    ELSE IF b.magazine THEN SumCharges(b.contents)
    ELSE 0

\* item::ammo_current()
item_ammo_current(b) ==
    IF b.gun THEN b.curammo
    ELSE IF b.magazine /\ b.contents # <<>> THEN Head(b.contents).typeId
    ELSE "null"

\* item::ammo_unset()
item_ammo_unset(b) ==
    IF b.magazine THEN [b EXCEPT !.contents = <<>>]
    ELSE IF b.gun THEN [b EXCEPT !.curammo = "null", !.charges = 0]
    ELSE b

\* item::ammo_set( ammo, qty ): a negative qty fills an integral magazine
item_ammo_set(b, ammo, qty) ==
    LET q == IF qty < 0 THEN item_ammo_capacity(b) ELSE qty
    IN  IF q <= 0 THEN item_ammo_unset(b)
        ELSE IF find_type_ammo_type(ammo) # b.ammo_type THEN b
        ELSE IF b.magazine
             THEN [b EXCEPT !.contents = <<Stack(ammo, Min(q, item_ammo_capacity(b)))>>]
        ELSE IF b.gun
             THEN [b EXCEPT !.curammo = ammo, !.charges = Min(q, item_ammo_capacity(b))]
        ELSE b

RECURSIVE ConsumeBack(_, _)
\* the loop of item::ammo_consume over a magazine's contents, newest first
ConsumeBack(s, need) ==
    IF s = <<>> \/ need = 0 THEN [contents |-> s, need |-> need]
    ELSE LET e == s[Len(s)]
         IN  IF need >= e.charges
             THEN ConsumeBack(SubSeq(s, 1, Len(s) - 1), need - e.charges)
             ELSE [contents |-> [s EXCEPT ![Len(s)].charges = e.charges - need],
                   need |-> 0]

\* item::ammo_consume( qty ): [base, ret]
item_ammo_consume(b, qty) ==
    IF qty < 0 THEN [base |-> b, ret |-> 0]
    ELSE IF b.magazine
    THEN LET r == ConsumeBack(b.contents, qty)
         IN  [base |-> [b EXCEPT !.contents = r.contents], ret |-> qty - r.need]
    ELSE IF b.gun
    THEN LET q == Min(qty, b.charges)
         IN  [base |-> [b EXCEPT !.charges = b.charges - q,
                                 !.curammo = IF b.charges - q = 0 THEN "null" ELSE b.curammo],
              ret |-> q]
    ELSE [base |-> b, ret |-> 0]

\* item::is_reloadable_with( obj )
item_is_reloadable_with(b, obj) ==
    /\ b.magazine \/ b.gun
    /\ obj = "" \/ find_type_ammo_type(obj) = b.ammo_type
    /\ item_ammo_remaining(b) < item_ammo_capacity(b)

\* item::set_damage( qty ), qty a double
item_set_damage(b, qty) ==
    [b EXCEPT !.damage_ = Max(Min(qty, max_damage * Unit), min_damage * Unit)]

\* item::charges_per_volume( vol ) of an item of type t
item_charges_per_volume(t, vol) ==
    (vol * Max(find_type_stack_size(t), 1)) \div Max(find_type_volume(t), 1)

\* item::get_remaining_capacity_for_liquid( liquid ), in charges
item_get_remaining_capacity_for_liquid(b, t) ==
    IF ~b.watertight \/ ~find_type_is_liquid(t) THEN 0
    ELSE IF b.contents # <<>> /\ Head(b.contents).typeId # t THEN 0
    ELSE Max(0, item_charges_per_volume(t, item_get_container_capacity(b))
                - (IF b.contents = <<>> THEN 0 ELSE Head(b.contents).charges))

\* item::fill_with( liquid, amount ): the liquid joins the first stack of the
\* contents, or becomes the contents of an empty container
item_fill_with(b, liquid, qty) ==
    LET amount == Min(item_get_remaining_capacity_for_liquid(b, liquid.typeId),
                      Min(qty, liquid.charges))
    IN  IF amount <= 0 THEN b
        ELSE IF b.contents # <<>>
        THEN [b EXCEPT !.contents[1].charges = b.contents[1].charges + amount]
        ELSE [b EXCEPT !.contents = <<Stack(liquid.typeId, amount)>>]

\* item::faults_potential(): the faults the item's type lists
item_faults_potential(b) == b.potential

(* --------------------------- vehicle_part ----------------------------- *)

is_engine(pt) == pt.engine
is_tank(pt) == item_is_watertight_container(pt.base)
is_battery(pt) == pt.base.magazine /\ pt.base.ammo_type = "battery"
is_reactor(pt) == pt.reactor
is_turret(pt) == pt.base.gun
is_seat(pt) == pt.seat

\* vehicle_part::health_percent, a double
health_percent(pt) == Fl(Unit - Fl(item_damage(pt.base) * Unit, max_damage), 1)

\* vehicle_part::hp: the double dur * health_percent() converted to int
hp(pt) == Fl(pt.durability * health_percent(pt), 1) \div Unit

is_broken(pt) == item_damage(pt.base) >= max_damage

ammo_current(pt) ==
    IF is_battery(pt) THEN "battery"
    ELSE IF is_reactor(pt) \/ is_turret(pt) THEN item_ammo_current(pt.base)
    ELSE IF is_tank(pt) /\ pt.base.contents # <<>> THEN Head(pt.base.contents).typeId
    ELSE IF is_engine(pt) THEN (IF pt.fuel_type # "muscle" THEN pt.fuel_type ELSE "null")
    ELSE "null"

ammo_capacity(pt) ==
    IF is_battery(pt) \/ is_reactor(pt) \/ is_turret(pt) THEN item_ammo_capacity(pt.base)
    ELSE IF item_is_watertight_container(pt.base)
    THEN item_get_container_capacity(pt.base) \div Max(find_type_volume(ammo_current(pt)), 1)
    ELSE 0

ammo_remaining(pt) ==
    IF is_battery(pt) \/ is_reactor(pt) \/ is_turret(pt) THEN item_ammo_remaining(pt.base)
    ELSE IF item_is_watertight_container(pt.base)
    THEN (IF pt.base.contents = <<>> THEN 0
          ELSE pt.base.contents[Len(pt.base.contents)].charges)
    ELSE 0

\* the role of a part for ammo, by the order in which ammo_current checks
ammo_role(pt) ==
    IF is_battery(pt) THEN "battery"
    ELSE IF is_reactor(pt) \/ is_turret(pt) THEN "reactor_turret"
    ELSE IF is_tank(pt) THEN "tank"
    ELSE IF is_engine(pt) THEN "engine"
    ELSE "none"

\* an ammo_set that returns the requested quantity on every path
ammo_set_returns_qty(pt, ammo, qty) ==
    IF is_turret(pt)
    THEN LET b == item_ammo_set(pt.base, ammo, qty)
         IN  [pt |-> [pt EXCEPT !.base = b], ret |-> item_ammo_remaining(b), via |-> "item"]
    ELSE IF is_battery(pt) \/ is_reactor(pt)
    THEN LET b == item_ammo_set(pt.base, ammo, IF qty >= 0 THEN qty ELSE ammo_capacity(pt))
         IN  [pt |-> [pt EXCEPT !.base = b], ret |-> qty, via |-> "item"]
    ELSE IF is_tank(pt) /\ find_type_is_liquid(ammo)
    THEN LET cleared == [pt EXCEPT !.base.contents = <<>>]
             stack   == legacy_volume_factor \div Max(find_type_stack_size(ammo), 1)
             limit   == ammo_capacity(cleared) \div stack
             n       == IF qty >= 0 THEN Min(qty, limit) ELSE limit
         IN  [pt |-> [pt EXCEPT !.base.contents = <<Stack(ammo, n)>>],
              ret |-> qty, via |-> "tank"]
    ELSE [pt |-> pt, ret |-> -1, via |-> "none"]

\* vehicle_part::ammo_set: [pt, ret, via]
ammo_set(pt, ammo, qty) ==
    IF is_turret(pt)
    THEN LET b == item_ammo_set(pt.base, ammo, qty)
         IN  [pt |-> [pt EXCEPT !.base = b], ret |-> item_ammo_remaining(b), via |-> "item"]
    ELSE IF is_battery(pt) \/ is_reactor(pt)
    THEN LET b == item_ammo_set(pt.base, ammo, IF qty >= 0 THEN qty ELSE ammo_capacity(pt))
         IN  [pt |-> [pt EXCEPT !.base = b], ret |-> item_ammo_remaining(b), via |-> "item"]
    ELSE IF is_tank(pt) /\ find_type_is_liquid(ammo)
    THEN LET cleared == [pt EXCEPT !.base.contents = <<>>]
             stack   == legacy_volume_factor \div Max(find_type_stack_size(ammo), 1)
             limit   == ammo_capacity(cleared) \div stack
             n       == IF qty >= 0 THEN Min(qty, limit) ELSE limit
         IN  [pt |-> [pt EXCEPT !.base.contents = <<Stack(ammo, n)>>],
              ret |-> qty, via |-> "tank"]
    ELSE [pt |-> pt, ret |-> -1, via |-> "none"]

\* vehicle_part::ammo_unset: [pt, via]
ammo_unset(pt) ==
    IF is_battery(pt) \/ is_reactor(pt) \/ is_turret(pt)
    THEN [pt |-> [pt EXCEPT !.base = item_ammo_unset(pt.base)], via |-> "item"]
    ELSE IF is_tank(pt)
    THEN [pt |-> [pt EXCEPT !.base.contents = <<>>], via |-> "tank"]
    ELSE [pt |-> pt, via |-> "none"]

\* an ammo_consume that leaves the spent stack in the contents
ammo_consume_keeps_spent(pt, qty) ==
    IF is_battery(pt) \/ is_reactor(pt)
    THEN LET r == item_ammo_consume(pt.base, qty)
         IN  [pt |-> [pt EXCEPT !.base = r.base], ret |-> r.ret, via |-> "item"]
    ELSE LET res == Min(ammo_remaining(pt), qty)
             c   == pt.base.contents
         IN  IF item_is_watertight_container(pt.base) /\ c # <<>>
             THEN [pt |-> [pt EXCEPT !.base.contents[Len(c)].charges =
                                         c[Len(c)].charges - res],
                   ret |-> res, via |-> "tank"]
             ELSE [pt |-> pt, ret |-> res,
                   via |-> IF item_is_watertight_container(pt.base) THEN "tank" ELSE "none"]

\* vehicle_part::ammo_consume: [pt, ret, via]
ammo_consume(pt, qty) ==
    IF is_battery(pt) \/ is_reactor(pt)
    THEN LET r == item_ammo_consume(pt.base, qty)
         IN  [pt |-> [pt EXCEPT !.base = r.base], ret |-> r.ret, via |-> "item"]
    ELSE LET res == Min(ammo_remaining(pt), qty)
             c   == pt.base.contents
         IN  IF item_is_watertight_container(pt.base) /\ c # <<>>
             THEN LET left == c[Len(c)].charges - res
                  IN  [pt |-> [pt EXCEPT !.base.contents =
                                   IF left = 0 THEN <<>>
                                   ELSE [c EXCEPT ![Len(c)].charges = left]],
                       ret |-> res, via |-> "tank"]
             ELSE [pt |-> pt, ret |-> res,
                   via |-> IF item_is_watertight_container(pt.base) THEN "tank" ELSE "none"]

\* a consume_energy that rounds the charges needed down
consume_energy_floor(pt, ftype, energy) ==
    LET c == pt.base.contents
    IN  IF c = <<>> \/ (~is_battery(pt) /\ ~is_reactor(pt)
                         /\ ~item_is_watertight_container(pt.base))
        THEN [pt |-> pt, ret |-> 0]
        ELSE LET fuel == c[Len(c)]
             IN  IF fuel.typeId # ftype THEN [pt |-> pt, ret |-> 0]
                 ELSE LET energy_per_unit == item_fuel_energy(fuel.typeId)
                          charges_to_use  == energy \div energy_per_unit
                      IN  IF charges_to_use > fuel.charges
                          THEN [pt |-> [pt EXCEPT !.base.contents = <<>>],
                                ret |-> fuel.charges * energy_per_unit]
                          ELSE [pt |-> [pt EXCEPT !.base.contents[Len(c)].charges =
                                                      fuel.charges - charges_to_use],
                                ret |-> charges_to_use * energy_per_unit]

\* vehicle_part::consume_energy: [pt, ret]
consume_energy(pt, ftype, energy) ==
    LET c == pt.base.contents
    IN  IF c = <<>> \/ (~is_battery(pt) /\ ~is_reactor(pt)
                         /\ ~item_is_watertight_container(pt.base))
        THEN [pt |-> pt, ret |-> 0]
        ELSE LET fuel == c[Len(c)]
             IN  IF fuel.typeId # ftype THEN [pt |-> pt, ret |-> 0]
                 ELSE LET energy_per_unit == item_fuel_energy(fuel.typeId)
                          charges_to_use  == CeilDiv(energy, energy_per_unit)
                      IN  IF charges_to_use > fuel.charges
                          THEN [pt |-> [pt EXCEPT !.base.contents = <<>>],
                                ret |-> fuel.charges * energy_per_unit]
                          ELSE [pt |-> [pt EXCEPT !.base.contents[Len(c)].charges =
                                                      fuel.charges - charges_to_use],
                                ret |-> charges_to_use * energy_per_unit]

\* a can_reload that lets a second liquid into a loaded tank
can_reload_mixing(pt, obj) ==
    IF is_broken(pt) \/ ammo_capacity(pt) <= 0 THEN FALSE
    ELSE IF is_reactor(pt) THEN item_is_reloadable_with(pt.base, obj)
    ELSE IF is_tank(pt)
    THEN IF obj # "" /\ ~find_type_is_liquid(obj) THEN FALSE
         ELSE IF pt.fuel_type # "null" /\ pt.fuel_type # obj THEN FALSE
         ELSE ammo_remaining(pt) < ammo_capacity(pt)
    ELSE FALSE

\* vehicle_part::can_reload
can_reload(pt, obj) ==
    IF is_broken(pt) \/ ammo_capacity(pt) <= 0 THEN FALSE
    ELSE IF is_reactor(pt) THEN item_is_reloadable_with(pt.base, obj)
    ELSE IF is_tank(pt)
    THEN IF obj # "" /\ ~find_type_is_liquid(obj) THEN FALSE
         ELSE IF obj # "" /\ ammo_current(pt) # "null" /\ ammo_current(pt) # obj THEN FALSE
         ELSE IF pt.fuel_type # "null" /\ pt.fuel_type # obj THEN FALSE
         ELSE ammo_remaining(pt) < ammo_capacity(pt)
    ELSE FALSE

\* a fill_with that takes active liquids
fill_with_active(pt, liquid, qty) ==
    IF liquid.rotten THEN [pt |-> pt, ok |-> FALSE]
    ELSE IF ~is_tank(pt) \/ ~can_reload(pt, liquid.typeId) THEN [pt |-> pt, ok |-> FALSE]
    ELSE [pt |-> [pt EXCEPT !.base = item_fill_with(pt.base, liquid, qty)], ok |-> TRUE]

\* vehicle_part::fill_with: [pt, ok]
fill_with(pt, liquid, qty) ==
    IF liquid.active \/ liquid.rotten THEN [pt |-> pt, ok |-> FALSE]
    ELSE IF ~is_tank(pt) \/ ~can_reload(pt, liquid.typeId) THEN [pt |-> pt, ok |-> FALSE]
    ELSE [pt |-> [pt EXCEPT !.base = item_fill_with(pt.base, liquid, qty)], ok |-> TRUE]

\* vehicle_part::faults
faults(pt) == pt.base.faults

\* vehicle_part::faults_potential
faults_potential(pt) == item_faults_potential(pt.base)

\* a fault_set that takes any fault
fault_set_unchecked(pt, f) ==
    [pt |-> [pt EXCEPT !.base.faults = pt.base.faults \cup {f}], ok |-> TRUE]

\* vehicle_part::fault_set: [pt, ok]
fault_set(pt, f) ==
    IF f \notin faults_potential(pt) THEN [pt |-> pt, ok |-> FALSE]
    ELSE [pt |-> [pt EXCEPT !.base.faults = pt.base.faults \cup {f}], ok |-> TRUE]

(* ------------------------------- crew --------------------------------- *)

\* game::critter_by_id<npc>: the NPC's id, or 0 when the registry has none
critter_by_id(id) == IF id \in DOMAIN npcs /\ npcs[id].exists THEN id ELSE 0

\* vehicle_part::crew: the NPC's id, or 0 for nullptr
crew(pt) ==
    IF is_broken(pt) \/ pt.crew_id < 0 THEN 0
    ELSE LET res == critter_by_id(pt.crew_id)
         IN  IF res = 0 THEN 0
             ELSE IF npcs[res].friend THEN res ELSE 0

\* set_crew without the check for a broken part
set_crew_on_broken(pt, who) ==
    IF npcs[who].dead \/ ~npcs[who].friend THEN [pt |-> pt, ok |-> FALSE]
    ELSE IF ~is_seat(pt) /\ ~is_turret(pt) THEN [pt |-> pt, ok |-> FALSE]
    ELSE [pt |-> [pt EXCEPT !.crew_id = who], ok |-> TRUE]

\* vehicle_part::set_crew: [pt, ok]
set_crew(pt, who) ==
    IF npcs[who].dead \/ ~npcs[who].friend THEN [pt |-> pt, ok |-> FALSE]
    ELSE IF is_broken(pt) \/ (~is_seat(pt) /\ ~is_turret(pt)) THEN [pt |-> pt, ok |-> FALSE]
    ELSE [pt |-> [pt EXCEPT !.crew_id = who], ok |-> TRUE]

\* vehicle_part::unset_crew
unset_crew(pt) == [pt EXCEPT !.crew_id = NO_CREW]

\* vehicle_part::set_base
set_base(pt, new_base) == [pt EXCEPT !.base = new_base]

(* ------------------------------ vehicle ------------------------------- *)

\* the double k = max_damage / double( durability ) of set_hp and mod_hp
damage_per_hp(pt) == Fl(max_damage * Unit, pt.durability)

\* a set_hp that takes the crew off a part it breaks
set_hp_unseats(pt, qty) ==
    IF qty = pt.durability THEN [pt EXCEPT !.base = item_set_damage(pt.base, 0)]
    ELSE IF qty = 0
    THEN [pt EXCEPT !.base = item_set_damage(pt.base, max_damage * Unit),
                    !.crew_id = NO_CREW]
    ELSE LET k == damage_per_hp(pt)
         IN  [pt EXCEPT !.base =
                  item_set_damage(pt.base, Fl(max_damage * Unit - Fl(qty * k, 1), 1))]

\* vehicle::set_hp
set_hp(pt, qty) ==
    IF qty = pt.durability THEN [pt EXCEPT !.base = item_set_damage(pt.base, 0)]
    ELSE IF qty = 0
    THEN [pt EXCEPT !.base = item_set_damage(pt.base, max_damage * Unit)]
    ELSE LET k == damage_per_hp(pt)
         IN  [pt EXCEPT !.base =
                  item_set_damage(pt.base, Fl(max_damage * Unit - Fl(qty * k, 1), 1))]

\* item::mod_damage( qty ) as vehicle::mod_hp calls it: [base, ret]
item_mod_damage(b, qty) ==
    LET sum == Fl(b.damage_ + qty, 1)
    IN  [base |-> [b EXCEPT !.damage_ =
                       Max(Min(sum, max_damage * Unit), min_damage * Unit)],
         ret  |-> sum > max_damage * Unit]

\* vehicle::mod_hp: [pt, ret]
mod_hp(pt, qty) ==
    LET k == damage_per_hp(pt)
        r == item_mod_damage(pt.base, Fl((-qty) * k, 1))
    IN  [pt |-> [pt EXCEPT !.base = r.base], ret |-> r.ret]

\* an assign_seat that leaves the NPC's other seats assigned
assign_seat_scan_skipped(ps, p, who) == ps

\* the scan of vehicle::assign_seat over the other parts
assign_seat_scan(ps, p, who) ==
    [e \in DOMAIN ps |->
        IF e = p THEN ps[e]
        ELSE IF is_seat(ps[e]) /\ crew(ps[e]) # 0 /\ crew(ps[e]) = who
             THEN unset_crew(ps[e])
             ELSE ps[e]]

\* vehicle::assign_seat: [parts, ok]
assign_seat(ps, p, who) ==
    LET r == set_crew(ps[p], who)
    IN  IF ~is_seat(ps[p]) \/ ~r.ok THEN [parts |-> ps, ok |-> FALSE]
        ELSE [parts |-> assign_seat_scan([ps EXCEPT ![p] = r.pt], p, who), ok |-> TRUE]


(* ------------------------------ actions ------------------------------- *)

PartIds == DOMAIN parts
NpcIds == DOMAIN npcs

Item(gun, magazine, ammo_type, watertight, contents) ==
    [gun |-> gun, magazine |-> magazine, ammo_type |-> ammo_type,
     watertight |-> watertight, damage_ |-> 0, contents |-> contents,
     charges |-> 0, curammo |-> "null", faults |-> {}, potential |-> {}]

PlainItem == Item(FALSE, FALSE, "NULL", FALSE, <<>>)
GunItem == Item(TRUE, FALSE, "9mm", FALSE, <<>>)

Part(seat, reactor, engine, fuel_type, base) ==
    [seat |-> seat, reactor |-> reactor, engine |-> engine, fuel_type |-> fuel_type,
     durability |-> Durability, base |-> base, crew_id |-> NO_CREW]

Called(op, p, who, arg, qty, ret, ok, via) ==
    [op |-> op, part |-> p, who |-> who, arg |-> arg, qty |-> qty,
     ret |-> ret, ok |-> ok, via |-> via]

QtyInputs == -1 .. MaxQty
EnergyInputs == 0 .. MaxEnergy
AmmoInputs == {"", "water_clean", "gasoline", "battery", "plut_cell", "9mm"}

\* every stack of the part stays within the charges the model follows
Bounded(pt) ==
    /\ \A i \in 1 .. Len(pt.base.contents) :
           pt.base.contents[i].charges \in 0 .. MaxCharges
    /\ pt.base.charges \in 0 .. MaxCharges

AssignSeat(p, n) ==
    LET r == assign_seat(parts, p, n)
        \* the other parts whose crew the scan cleared
        cleared == {q \in PartIds \ {p} : r.parts[q].crew_id # parts[q].crew_id}
    IN  /\ parts' = r.parts
        /\ last' = Called("assign_seat", p, n, "", 0, Cardinality(cleared), r.ok, "")
        /\ UNCHANGED npcs

SetCrew(p, n) ==
    LET r == set_crew(parts[p], n)
    IN  /\ parts' = [parts EXCEPT ![p] = r.pt]
        /\ last' = Called("set_crew", p, n, "", 0, 0, r.ok, "")
        /\ UNCHANGED npcs

\* the query vehicle_part::crew
Crew(p) ==
    /\ last' = Called("crew", p, 0, "", 0, crew(parts[p]), TRUE, "")
    /\ UNCHANGED <<parts, npcs>>

UnsetCrew(p) ==
    /\ parts' = [parts EXCEPT ![p] = unset_crew(parts[p])]
    /\ last' = Called("unset_crew", p, 0, "", 0, 0, TRUE, "")
    /\ UNCHANGED npcs

SetBase(p, b) ==
    /\ parts' = [parts EXCEPT ![p] = set_base(parts[p], b)]
    /\ last' = Called("set_base", p, 0, "", 0, 0, TRUE, "")
    /\ UNCHANGED npcs

SetHp(p, qty) ==
    /\ parts' = [parts EXCEPT ![p] = set_hp(parts[p], qty)]
    /\ last' = Called("set_hp", p, 0, "", qty, 0, TRUE, "")
    /\ UNCHANGED npcs

ModHp(p, qty) ==
    LET r == mod_hp(parts[p], qty)
    IN  /\ parts' = [parts EXCEPT ![p] = r.pt]
        /\ last' = Called("mod_hp", p, 0, "", qty, 0, r.ret, "")
        /\ UNCHANGED npcs

\* the NPC's attitude changes: npc::is_friend() becomes b
SetFriend(n, b) ==
    /\ npcs[n].friend # b
    /\ npcs' = [npcs EXCEPT ![n].friend = b]
    /\ last' = Called("set_friend", 0, n, "", 0, 0, b, "")
    /\ UNCHANGED parts

\* the NPC's hit points reach zero: is_dead_state() becomes true
NpcDie(n) ==
    /\ ~npcs[n].dead
    /\ npcs' = [npcs EXCEPT ![n].dead = TRUE]
    /\ last' = Called("npc_die", 0, n, "", 0, 0, TRUE, "")
    /\ UNCHANGED parts

\* the dead NPC is removed from the game's list of active NPCs
NpcRemove(n) ==
    /\ npcs[n].dead /\ npcs[n].exists
    /\ npcs' = [npcs EXCEPT ![n].exists = FALSE]
    /\ last' = Called("npc_remove", 0, n, "", 0, 0, TRUE, "")
    /\ UNCHANGED parts

AmmoSet(p, ammo, qty) ==
    LET r == ammo_set(parts[p], ammo, qty)
    IN  /\ Bounded(r.pt)
        /\ parts' = [parts EXCEPT ![p] = r.pt]
        /\ last' = Called("ammo_set", p, 0, ammo, qty, r.ret, TRUE, r.via)
        /\ UNCHANGED npcs

AmmoUnset(p) ==
    LET r == ammo_unset(parts[p])
    IN  /\ parts' = [parts EXCEPT ![p] = r.pt]
        /\ last' = Called("ammo_unset", p, 0, "", 0, 0, TRUE, r.via)
        /\ UNCHANGED npcs

AmmoConsume(p, qty) ==
    LET r == ammo_consume(parts[p], qty)
    IN  /\ Bounded(r.pt)
        /\ parts' = [parts EXCEPT ![p] = r.pt]
        /\ last' = Called("ammo_consume", p, 0, "", qty, r.ret, TRUE, r.via)
        /\ UNCHANGED npcs

\* the assert of consume_energy: a newest stack of the type asked for is a fuel
ConsumeEnergy(p, ftype, energy) ==
    LET c == parts[p].base.contents
        r == consume_energy(parts[p], ftype, energy)
    IN  /\ (c # <<>> /\ c[Len(c)].typeId = ftype) => item_is_fuel(ftype)
        /\ parts' = [parts EXCEPT ![p] = r.pt]
        /\ last' = Called("consume_energy", p, 0, ftype, energy, r.ret, TRUE, "")
        /\ UNCHANGED npcs

CanReload(p, obj) ==
    /\ last' = Called("can_reload", p, 0, obj, 0, 0, can_reload(parts[p], obj), "")
    /\ UNCHANGED <<parts, npcs>>

\* the liquid item offered to fill_with
Liquid(t, active, rotten) ==
    [typeId |-> t, charges |-> MaxQty, active |-> active, rotten |-> rotten]

\* the condition of a liquid item, as the call is recorded
Condition(liquid) ==
    IF liquid.active /\ liquid.rotten THEN "active_rotten"
    ELSE IF liquid.active THEN "active"
    ELSE IF liquid.rotten THEN "rotten"
    ELSE "fresh"

FillWith(p, liquid, qty) ==
    LET r == fill_with(parts[p], liquid, qty)
    IN  /\ Bounded(r.pt)
        /\ parts' = [parts EXCEPT ![p] = r.pt]
        /\ last' = Called("fill_with", p, 0, liquid.typeId, qty, 0, r.ok, Condition(liquid))
        /\ UNCHANGED npcs

\* the query vehicle_part::hp
Hp(p) ==
    /\ last' = Called("hp", p, 0, "", 0, hp(parts[p]), TRUE, "")
    /\ UNCHANGED <<parts, npcs>>

FaultSet(p, f) ==
    LET r == fault_set(parts[p], f)
    IN  /\ parts' = [parts EXCEPT ![p] = r.pt]
        /\ last' = Called("fault_set", p, 0, f, 0, 0, r.ok, "")
        /\ UNCHANGED npcs

(* --------------------------- specifications --------------------------- *)

NoCall == Called("", 0, 0, "", 0, 0, TRUE, "")

\* a vehicle with NumSeats seats and a turret, and n live friendly NPCs nearby
CrewVehicle(n) ==
    /\ parts = [p \in 1 .. NumSeats + 1 |->
                   IF p = NumSeats + 1 THEN Part(FALSE, FALSE, FALSE, "null", GunItem)
                   ELSE Part(TRUE, FALSE, FALSE, "null", PlainItem)]
    /\ npcs = [i \in 1 .. n |-> [exists |-> TRUE, dead |-> FALSE, friend |-> TRUE]]
    /\ last = NoCall

\* the operations of the single-seat rule: seats are assigned and cleared,
\* parts are damaged and repaired, NPCs change their attitude
NextSeat ==
    \/ \E p \in PartIds, n \in NpcIds : AssignSeat(p, n)
    \/ \E p \in PartIds : UnsetCrew(p)
    \/ \E p \in PartIds, qty \in {0, Durability} : SetHp(p, qty)
    \/ \E p \in PartIds : ModHp(p, -Durability)
    \/ \E n \in NpcIds, b \in BOOLEAN : SetFriend(n, b)

SpecSeat == CrewVehicle(NumNpcs) /\ [][NextSeat]_vars

Next ==
    \/ NextSeat
    \/ \E p \in PartIds, n \in NpcIds : SetCrew(p, n)
    \/ \E p \in PartIds : Crew(p)
    \/ \E p \in PartIds : SetBase(p, PlainItem)
    \/ \E n \in NpcIds : NpcDie(n)
    \/ \E n \in NpcIds : NpcRemove(n)

Spec == CrewVehicle(1) /\ [][Next]_vars

\* the embedded item of a part with the given raw role predicates: a battery
\* is a magazine of battery ammo, a reactor's item is a plutonium magazine
RoleItem(battery, gun, watertight, reactor, contents) ==
    Item(gun, battery \/ (reactor /\ ~gun),
         IF battery THEN "battery"
         ELSE IF gun THEN "9mm"
         ELSE IF reactor THEN "plutonium"
         ELSE "NULL",
         watertight, contents)

\* contents a tank item is installed with
TankContents == {<<>>, <<Stack("water_clean", 1)>>}

\* contents of the items set_base puts in place of a tank's item
NewBaseContents ==
    {<<>>, <<Stack("water_clean", 1), Stack("gasoline", 1)>>}

\* one part of any combination of the raw role predicates, intact or broken
InitAmmo ==
    /\ \E battery \in BOOLEAN, gun \in BOOLEAN, watertight \in BOOLEAN,
          reactor \in BOOLEAN, engine \in BOOLEAN, broken \in BOOLEAN,
          fuel \in {"null", "gasoline", "muscle"}, c \in TankContents :
          /\ engine => fuel # "null"
          /\ ~engine => fuel # "muscle"
          /\ c # <<>> => (watertight /\ ~battery /\ ~gun /\ ~reactor)
          /\ LET b == RoleItem(battery, gun, watertight, reactor, c)
                 pt == Part(FALSE, reactor, engine, fuel, b)
             IN  parts = [p \in {1} |->
                             IF broken THEN set_hp(pt, 0) ELSE pt]
    /\ npcs = <<>>
    /\ last = NoCall

NextAmmo ==
    \/ \E p \in PartIds, ammo \in AmmoInputs, qty \in QtyInputs : AmmoSet(p, ammo, qty)
    \/ \E p \in PartIds : AmmoUnset(p)
    \/ \E p \in PartIds, qty \in QtyInputs : AmmoConsume(p, qty)
    \/ \E p \in PartIds, ftype \in {"gasoline", "battery"}, energy \in EnergyInputs :
           ConsumeEnergy(p, ftype, energy)
    \/ \E p \in PartIds, obj \in AmmoInputs : CanReload(p, obj)
    \/ \E p \in PartIds, c \in NewBaseContents :
           /\ ammo_role(parts[p]) = "tank"
           /\ SetBase(p, [parts[p].base EXCEPT !.contents = c, !.damage_ = 0])

SpecAmmo == InitAmmo /\ [][NextAmmo]_vars

\* the faults of the game
Faults == {"fault_engine_belt_drive", "fault_engine_starter"}

\* hit points passed to set_hp: below 0, up to above the durability
HpInputs(pt) == -1 .. pt.durability + 1

\* hit points passed to mod_hp: damage and repair
ModInputs(pt) == {-pt.durability, -1, 1}

\* one engine part of either durability whose item has any whole damage and
\* lists any of the faults
InitHp ==
    /\ \E dur \in {Durability, LargeDurability}, d \in 0 .. max_damage,
          potential \in SUBSET Faults :
          parts = [p \in {1} |->
                      [Part(FALSE, FALSE, TRUE, "gasoline",
                            [PlainItem EXCEPT !.damage_ = d * Unit,
                                              !.potential = potential])
                       EXCEPT !.durability = dur]]
    /\ npcs = <<>>
    /\ last = NoCall

NextHp ==
    \/ \E p \in PartIds : \E qty \in HpInputs(parts[p]) : SetHp(p, qty)
    \/ \E p \in PartIds : \E qty \in ModInputs(parts[p]) : ModHp(p, qty)
    \/ \E p \in PartIds : Hp(p)
    \/ \E p \in PartIds, f \in Faults : FaultSet(p, f)

SpecHp == InitHp /\ [][NextHp]_vars

\* the item types offered as liquid to fill_with
FillInputs == {"water_clean", "gasoline", "plut_cell"}

\* a part of any role is filled, drawn from and emptied
NextFill ==
    \/ \E p \in PartIds, t \in FillInputs, active \in BOOLEAN, rotten \in BOOLEAN,
          qty \in 1 .. MaxQty : FillWith(p, Liquid(t, active, rotten), qty)
    \/ \E p \in PartIds : AmmoConsume(p, 1)
    \/ \E p \in PartIds : AmmoUnset(p)

SpecFill == InitAmmo /\ [][NextFill]_vars

(* ------------------------------ claims -------------------------------- *)

\* the seats of the vehicle that report NPC n as crew
SeatsOf(n) == {p \in PartIds : is_seat(parts[p]) /\ crew(parts[p]) = n}

\* C1: single-seat rule. In every state reached by assign_seat, unset_crew,
\* set_hp, mod_hp and changes of an NPC's attitude, each NPC is reported as
\* crew by at most one seat of the vehicle.
C1_SingleSeat == \A n \in NpcIds : Cardinality(SeatsOf(n)) <= 1

\* C2: assign_seat of a live friendly NPC to an unbroken seat returns true and
\* makes the seat report the NPC; when the call before it assigned the same
\* NPC to another seat, that seat reports no crew afterwards; assign_seat on a
\* part that is no seat, or that set_crew refuses, returns false and changes
\* no part's crew.
C2_Reassign ==
    [][\A b \in PartIds, x \in NpcIds :
        (last'.op = "assign_seat" /\ last'.part = b /\ last'.who = x) =>
        LET fits == /\ is_seat(parts[b]) /\ ~is_broken(parts[b])
                    /\ ~npcs[x].dead /\ npcs[x].friend
        IN  /\ fits => /\ last'.ok
                       /\ crew(parts[b])' = x
                       /\ \A a \in PartIds \ {b} :
                              (last.op = "assign_seat" /\ last.ok
                                  /\ last.part = a /\ last.who = x)
                              => crew(parts[a])' = 0
            /\ ~fits => /\ ~last'.ok
                        /\ \A q \in PartIds : parts'[q].crew_id = parts[q].crew_id
    ]_vars

\* C2 witness: the NPC was moved: the call cleared one other seat, which is
\* an unbroken seat without crew now, and the target seat reports the NPC.
C2_Witness ==
    /\ last.op = "assign_seat" /\ last.ok /\ last.ret = 1
    /\ crew(parts[last.part]) = last.who
    /\ \E a \in PartIds \ {last.part} :
           /\ is_seat(parts[a]) /\ ~is_broken(parts[a])
           /\ parts[a].crew_id = NO_CREW

\* C3: crew validity. Whenever crew() of a part returns an NPC, the part is
\* not broken, it is a seat or a turret, and the NPC exists, is alive and is
\* friendly.
C3_CrewValid ==
    \A p \in PartIds :
        crew(parts[p]) # 0 =>
            /\ ~is_broken(parts[p])
            /\ is_seat(parts[p]) \/ is_turret(parts[p])
            /\ npcs[crew(parts[p])].exists
            /\ ~npcs[crew(parts[p])].dead
            /\ npcs[crew(parts[p])].friend

\* C4: set_crew returns false and leaves crew_id unchanged when the NPC is
\* dead or not friendly, or the part is broken or neither seat nor turret;
\* otherwise it returns true and crew_id becomes the NPC's id.
C4_SetCrew ==
    [][last'.op = "set_crew" =>
        LET pt == parts[last'.part]
            n  == last'.who
            refused == \/ npcs[n].dead \/ ~npcs[n].friend
                       \/ is_broken(pt) \/ (~is_seat(pt) /\ ~is_turret(pt))
        IN  IF refused
            THEN ~last'.ok /\ parts'[last'.part].crew_id = pt.crew_id
            ELSE last'.ok /\ parts'[last'.part].crew_id = n
    ]_vars

\* C4 witness: set_crew refused a live friendly NPC on a broken seat, and the
\* part still has no crew.
C4_Witness ==
    /\ last.op = "set_crew" /\ ~last.ok
    /\ is_broken(parts[last.part]) /\ is_seat(parts[last.part])
    /\ ~npcs[last.who].dead /\ npcs[last.who].friend
    /\ parts[last.part].crew_id = NO_CREW

\* a tank part: the part's role for ammo is tank
TankRole(pt) == ammo_role(pt) = "tank"

\* the newest stack of the contents
Newest(pt) == pt.base.contents[Len(pt.base.contents)]

\* C5: tank clamping law. After ammo_set of a liquid on a tank part, for any
\* requested quantity, ammo_remaining() <= ammo_capacity(), the capacity being
\* that for the liquid now loaded.
C5_TankClamping ==
    \A p \in PartIds :
        (last.op = "ammo_set" /\ last.part = p /\ TankRole(parts[p])
            /\ find_type_is_liquid(last.arg))
        => ammo_remaining(parts[p]) <= ammo_capacity(parts[p])

\* C6: for a tank part and qty >= 0, ammo_consume returns
\* r = min(ammo_remaining() before, qty); afterwards ammo_remaining() is the
\* previous value minus r; when r is all that remained the contents are
\* emptied and ammo_remaining() is 0.
C6_TankConsume ==
    [][\A p \in PartIds :
        (last'.op = "ammo_consume" /\ last'.part = p /\ last'.qty >= 0
            /\ TankRole(parts[p])) =>
        LET before == ammo_remaining(parts[p])
            r      == last'.ret
        IN  /\ r = Min(before, last'.qty)
            /\ r <= before
            /\ ammo_remaining(parts'[p]) = before - r
            /\ r = before => /\ parts'[p].base.contents = <<>>
                             /\ ammo_remaining(parts'[p]) = 0
    ]_vars

\* C6 witness: a tank part was drained: ammo_consume returned a positive
\* amount and the contents are empty.
C6_Witness ==
    /\ last.op = "ammo_consume" /\ last.qty >= 0 /\ last.ret > 0
    /\ TankRole(parts[last.part])
    /\ parts[last.part].base.contents = <<>>

\* C7: ammo_set returns -1 exactly when the part is no turret, no battery, no
\* reactor and no tank given a liquid, and then the part is unchanged; every
\* successful ammo_set returns a value other than -1.
C7_Sentinel ==
    [][\A p \in PartIds :
        (last'.op = "ammo_set" /\ last'.part = p) =>
        LET pt    == parts[p]
            fails == /\ ~is_turret(pt) /\ ~is_battery(pt) /\ ~is_reactor(pt)
                     /\ ~(is_tank(pt) /\ find_type_is_liquid(last'.arg))
        IN  /\ (last'.ret = -1) <=> fails
            /\ fails => parts'[p] = pt
    ]_vars

\* the store an operation acts on for a part of the given role
RoleStore(role) ==
    IF role \in {"battery", "reactor_turret"} THEN "item"
    ELSE IF role = "tank" THEN "tank"
    ELSE "none"

\* C8: role precedence. ammo_set, ammo_unset and ammo_consume act on the part
\* as the role that the order battery, reactor/turret, tank, engine gives it,
\* the role ammo_current, ammo_capacity and ammo_remaining report for.
C8_SameRole ==
    last.op \in {"ammo_set", "ammo_unset", "ammo_consume"} =>
        LET store == RoleStore(ammo_role(parts[last.part]))
        IN  last.via = IF last.op = "ammo_set" /\ store = "tank"
                          /\ ~find_type_is_liquid(last.arg)
                       THEN "none"
                       ELSE store

\* C9: for a tank part with contents, ammo_current() is the type of the newest
\* stack, the stack whose charges ammo_remaining() reports.
C9_CurrentIsNewest ==
    \A p \in PartIds :
        (TankRole(parts[p]) /\ parts[p].base.contents # <<>>) =>
            /\ ammo_current(parts[p]) = Newest(parts[p]).typeId
            /\ ammo_remaining(parts[p]) = Newest(parts[p]).charges

\* the reasons the claim gives for can_reload( obj ) to refuse a tank part;
\* concrete tells whether the two checks of the candidate's type apply to a
\* candidate only when one is given
Blocked(pt, obj, concrete) ==
    \/ is_broken(pt) \/ ammo_capacity(pt) <= 0
    \/ ((concrete => obj # "") /\ ~find_type_is_liquid(obj))
    \/ ((concrete => obj # "") /\ ammo_current(pt) # "null" /\ ammo_current(pt) # obj)
    \/ (pt.fuel_type # "null" /\ pt.fuel_type # obj)
    \/ ammo_remaining(pt) >= ammo_capacity(pt)

\* C10 as first stated: can_reload on a tank part is false whenever the part
\* is broken, its capacity is <= 0, the candidate is no liquid, another liquid
\* is loaded, the descriptor pins another fuel type, or the tank is full; on a
\* part that is neither reactor nor tank it is false.
C10_Original ==
    last.op = "can_reload" =>
        LET pt == parts[last.part]
        IN  /\ (TankRole(pt) /\ Blocked(pt, last.arg, FALSE)) => ~last.ok
            /\ (~is_reactor(pt) /\ ~is_tank(pt)) => ~last.ok

\* C10: can_reload on a part that is a tank and no reactor is false whenever
\* the part is broken, its capacity is <= 0, a candidate is given and is no
\* liquid, a candidate is given and ammo_current() is another type, the
\* descriptor pins a fuel type other than the candidate, or the tank is full;
\* on a part that is neither reactor nor tank it is false.
C10_CanReload ==
    last.op = "can_reload" =>
        LET pt == parts[last.part]
        IN  /\ (is_tank(pt) /\ ~is_reactor(pt) /\ Blocked(pt, last.arg, TRUE)) => ~last.ok
            /\ (~is_reactor(pt) /\ ~is_tank(pt)) => ~last.ok

\* C10 witness: can_reload refused a liquid for an intact tank that holds
\* another liquid and is not full.
C10_Witness ==
    /\ last.op = "can_reload" /\ ~last.ok
    /\ TankRole(parts[last.part]) /\ ~is_broken(parts[last.part])
    /\ find_type_is_liquid(last.arg)
    /\ parts[last.part].base.contents # <<>>
    /\ ammo_current(parts[last.part]) # last.arg
    /\ parts[last.part].fuel_type = "null"
    /\ ammo_remaining(parts[last.part]) < ammo_capacity(parts[last.part])

\* C11: fill_with returns false and leaves the contents unchanged whenever the
\* liquid is active or rotten, and whenever the part is no tank or can_reload
\* refuses the liquid's type; it returns true only when the part is a tank,
\* the liquid is neither active nor rotten and can_reload approves its type.
C11_FillWith ==
    [][\A p \in PartIds :
        (last'.op = "fill_with" /\ last'.part = p) =>
        LET pt      == parts[p]
            spoiled == last'.via # "fresh"
            approve == is_tank(pt) /\ can_reload(pt, last'.arg)
        IN  /\ spoiled => (~last'.ok /\ parts'[p].base.contents = pt.base.contents)
            /\ ~approve => (~last'.ok /\ parts'[p].base.contents = pt.base.contents)
            /\ last'.ok => (~spoiled /\ approve)
    ]_vars

\* C11 witness: fill_with refused an active liquid that can_reload approves
\* for the intact tank, which is left empty.
C11_Witness ==
    /\ last.op = "fill_with" /\ ~last.ok /\ last.via = "active"
    /\ TankRole(parts[last.part]) /\ ~is_broken(parts[last.part])
    /\ can_reload(parts[last.part], last.arg)
    /\ parts[last.part].base.contents = <<>>

\* C12: fault_set(f) returns false and leaves the faults unchanged when f is
\* not in faults_potential(); otherwise it returns true and the faults are
\* the previous ones and f; no step adds a fault outside faults_potential().
C12_FaultSet ==
    [][\A p \in PartIds :
        /\ (last'.op = "fault_set" /\ last'.part = p) =>
               IF last'.arg \notin faults_potential(parts[p])
               THEN ~last'.ok /\ faults(parts'[p]) = faults(parts[p])
               ELSE last'.ok /\ faults(parts'[p]) = faults(parts[p]) \cup {last'.arg}
        /\ faults(parts[p]) \subseteq faults(parts'[p])
        /\ (faults(parts'[p]) \ faults(parts[p])) \subseteq faults_potential(parts[p])
    ]_vars

\* C12 witness: fault_set refused a fault outside the potential faults of a
\* part that has a fault set by an earlier call.
C12_Witness ==
    /\ last.op = "fault_set" /\ ~last.ok
    /\ last.arg \notin faults_potential(parts[last.part])
    /\ faults(parts[last.part]) # {}
    /\ faults(parts[last.part]) \subseteq faults_potential(parts[last.part])

C14_SetHp ==
    [][\A p \in PartIds :
        (last'.op = "set_hp" /\ last'.part = p) =>
        LET qty == last'.qty
        IN  /\ qty = parts[p].durability => parts'[p].base.damage_ = 0
            /\ qty = 0 => /\ parts'[p].base.damage_ = max_damage * Unit
                           /\ item_damage(parts'[p].base) = max_damage
            /\ set_hp(parts'[p], qty) = parts'[p]
            /\ qty = hp(parts[p]) => hp(parts'[p]) = hp(parts[p])
    ]_vars

\* durability * (max_damage - damage) / max_damage, rounded to the nearest
\* integer
RoundedHp(pt) ==
    (2 * pt.durability * (max_damage - item_damage(pt.base)) + max_damage)
        \div (2 * max_damage)

\* C15: for every damage in [0, max_damage], hp() is
\* durability * (max_damage - damage) / max_damage rounded to the nearest
\* integer; it is the durability at damage 0 and 0 at damage max_damage.
C15_HpRounded ==
    \A p \in PartIds :
        (last.op = "hp" /\ last.part = p
            /\ item_damage(parts[p].base) \in 0 .. max_damage) =>
            /\ last.ret = RoundedHp(parts[p])
            /\ item_damage(parts[p].base) = 0 => last.ret = parts[p].durability
            /\ item_damage(parts[p].base) = max_damage => last.ret = 0

\* C16: consume_energy returns 0 and changes nothing when the contents are
\* empty, the part is no battery, reactor or watertight container, or the
\* newest stack is of another type than asked for; otherwise, with
\* need = ceil(wanted / energy per unit): when need exceeds the stack's charges
\* the contents are emptied and charges x energy per unit is returned, else
\* the charges drop by need and need x energy per unit is returned. The
\* energy returned is the charges taken from the stack x energy per unit,
\* and at most the charges there were x energy per unit.
C16_ConsumeEnergy ==
    [][\A p \in PartIds :
        (last'.op = "consume_energy" /\ last'.part = p) =>
        LET pt   == parts[p]
            c    == pt.base.contents
            c2   == parts'[p].base.contents
            idle == \/ c = <<>>
                    \/ (~is_battery(pt) /\ ~is_reactor(pt) /\ ~is_tank(pt))
                    \/ Newest(pt).typeId # last'.arg
        IN  IF idle THEN last'.ret = 0 /\ parts'[p] = pt
            ELSE LET epu  == item_fuel_energy(last'.arg)
                     need == CeilDiv(last'.qty, epu)
                     had  == Newest(pt).charges
                     left == IF c2 = <<>> THEN 0 ELSE c2[Len(c2)].charges
                 IN  /\ IF need > had
                        THEN c2 = <<>> /\ last'.ret = had * epu
                        ELSE /\ c2 = [c EXCEPT ![Len(c)].charges = had - need]
                             /\ last'.ret = need * epu
                     /\ last'.ret = (had - left) * epu
                     /\ last'.ret <= had * epu
    ]_vars

\* C16 witness: a tank gave less energy than was wanted and is empty now.
C16_Witness ==
    /\ last.op = "consume_energy" /\ last.ret > 0 /\ last.ret < last.qty
    /\ TankRole(parts[last.part])
    /\ parts[last.part].base.contents = <<>>

\* C17: for a part that is no battery, no reactor and no tank, ammo_consume
\* of a qty >= 0 returns 0 and changes nothing; for every part and qty >= 0
\* the value returned is the amount by which ammo_remaining() dropped.
C17_NeutralConsume ==
    [][\A p \in PartIds :
        (last'.op = "ammo_consume" /\ last'.part = p /\ last'.qty >= 0) =>
        LET pt == parts[p]
        IN  /\ (~is_battery(pt) /\ ~is_reactor(pt) /\ ~is_tank(pt)) =>
                   (last'.ret = 0 /\ parts'[p] = pt)
            /\ last'.ret = ammo_remaining(pt) - ammo_remaining(parts'[p])
    ]_vars

\* a battery or reactor part that is no turret
BatteryOrReactor(pt) == (is_battery(pt) \/ is_reactor(pt)) /\ ~is_turret(pt)

\* C18 as first stated: for a battery or reactor part that is no turret,
\* ammo_set with a negative qty fills the part, ammo_remaining() =
\* ammo_capacity() afterwards, and with qty >= 0 makes ammo_remaining() qty;
\* the value returned is ammo_remaining() after the call.
C18_Original ==
    [][\A p \in PartIds :
        (last'.op = "ammo_set" /\ last'.part = p /\ BatteryOrReactor(parts[p])) =>
        /\ last'.qty < 0 => ammo_remaining(parts'[p]) = ammo_capacity(parts'[p])
        /\ last'.qty >= 0 => ammo_remaining(parts'[p]) = last'.qty
        /\ last'.ret = ammo_remaining(parts'[p])
    ]_vars

\* C18: for a battery or reactor part that is no turret and an ammo type the
\* part's item takes, ammo_set with a negative qty fills the part,
\* ammo_remaining() = ammo_capacity() afterwards, and with qty >= 0 makes
\* ammo_remaining() min(qty, ammo_capacity()); for every ammo type the value
\* returned is ammo_remaining() after the call.
C18_AmmoSet ==
    [][\A p \in PartIds :
        (last'.op = "ammo_set" /\ last'.part = p /\ BatteryOrReactor(parts[p])) =>
        /\ find_type_ammo_type(last'.arg) = parts[p].base.ammo_type =>
               /\ last'.qty < 0 => ammo_remaining(parts'[p]) = ammo_capacity(parts'[p])
               /\ last'.qty >= 0 =>
                      ammo_remaining(parts'[p]) = Min(last'.qty, ammo_capacity(parts'[p]))
        /\ last'.ret = ammo_remaining(parts'[p])
    ]_vars

\* C18 witness: ammo_set asked a battery for more than its capacity; the
\* battery is full and the call returned the capacity.
C18_Witness ==
    /\ last.op = "ammo_set" /\ last.arg = "battery"
    /\ is_battery(parts[last.part]) /\ ~is_turret(parts[last.part])
    /\ last.qty > ammo_capacity(parts[last.part])
    /\ ammo_remaining(parts[last.part]) = ammo_capacity(parts[last.part])
    /\ last.ret = ammo_capacity(parts[last.part])

\* C19: no depleted stack stays in a tank. After any ammo_set, ammo_consume,
\* consume_energy and ammo_unset on a tank part every stack of the contents
\* has charges > 0, and ammo_remaining() = 0 implies empty contents.
C19_NoDepletedStack ==
    \A p \in PartIds :
        TankRole(parts[p]) =>
            /\ \A i \in 1 .. Len(parts[p].base.contents) :
                   parts[p].base.contents[i].charges > 0
            /\ ammo_remaining(parts[p]) = 0 => parts[p].base.contents = <<>>

\* C20: crew() validates when read and invalidates nothing stored. crew()
\* changes nothing; only set_crew, unset_crew and assign_seat change a crew_id;
\* a broken part reports no crew; set_hp with a positive qty on a broken part
\* makes it report the NPC it stores again when the registry still has the
\* NPC and the NPC is friendly; unset_crew leaves the part without crew and
\* changes nothing else.
C20_ReadTimeCrew ==
    [][\A p \in PartIds :
        /\ parts'[p].crew_id # parts[p].crew_id =>
               last'.op \in {"set_crew", "unset_crew", "assign_seat"}
        /\ (last'.op = "crew" /\ last'.part = p) =>
               (parts' = parts /\ last'.ret = crew(parts[p]))
        /\ is_broken(parts'[p]) => (crew(parts[p]))' = 0
        /\ (/\ last'.op = "set_hp" /\ last'.part = p /\ last'.qty > 0
            /\ is_broken(parts[p])
            /\ parts[p].crew_id \in NpcIds
            /\ npcs[parts[p].crew_id].exists /\ npcs[parts[p].crew_id].friend) =>
               (crew(parts[p]))' = parts[p].crew_id
        /\ (last'.op = "unset_crew" /\ last'.part = p) =>
               /\ parts'[p] = [parts[p] EXCEPT !.crew_id = NO_CREW]
               /\ \A q \in PartIds \ {p} : parts'[q] = parts[q]
    ]_vars

\* C20 witness: crew() returned no NPC for a broken part that still stores
\* the id of an NPC the registry has and that is friendly.
C20_Witness ==
    /\ last.op = "crew" /\ last.ret = 0
    /\ is_broken(parts[last.part])
    /\ parts[last.part].crew_id \in NpcIds
    /\ npcs[parts[last.part].crew_id].exists
    /\ npcs[parts[last.part].crew_id].friend

====
